---------------------------- MODULE Spec2Model ----------------------------
(***************************************************************************)
(* Model of train_validation_test_split (src/unnamed/part_000, lines       *)
(* 162-206), the three-way dataset split built on two calls of             *)
(* sklearn.model_selection.train_test_split.                               *)
(*                                                                         *)
(* Proportions are the rationals k/Den and the arithmetic on them is exact.*)
(* With Den = 4 the values are quarters, which Python's floats represent   *)
(* exactly, and the float operations of lines 183, 185 and 200-202 and of  *)
(* sklearn's ceil(test_size * n_samples) give these same results for every *)
(* dataset size explored.  Python's row indices 0..n-1 are written 1..n.   *)
(* None is the empty tuple, a supplied value v is <<v>>.                   *)
(*                                                                         *)
(* Spec follows a call on the rows of its arrays.  SpecSizes follows a call*)
(* on the shapes of its arrays with the proportions as binary64 floats,    *)
(* for decimal proportions and for the wine dataset of the notebook.       *)
(* SpecSearch is the K search of lines 254-278 and SpecPrep is preprocess, *)
(* lines 393-413.  SpecLoops runs one of the three selection cells: the K  *)
(* search, the kernel search by k-fold (lines 336-364) or the pipeline     *)
(* search by grid search (lines 453-491).  Each specification leaves the   *)
(* variables of the others at rest.                                        *)
(***************************************************************************)
EXTENDS Integers, Sequences, FiniteSets

\* ---------------------------------------------------------------- bounds
MaxN == 4          \* largest number of rows of a dataset
MaxArrays == 3     \* largest number of arrays passed as *arrays
Den == 4           \* proportions are multiples of 1/Den

\* random_state = 42, the notebook's seed (line 96)
RandomSeed == 42

None == <<>>
Some(v) == <<v>>

\* The proportions a caller may pass: None, a negative value, 0, and the
\* multiples of 1/Den below 1.
Proportions == {None} \cup {Some(k) : k \in -1 .. Den - 1}
Seeds == {None, Some(RandomSeed)}

VARIABLES
    arrays,           \* *arrays: a tuple of arrays, row i of array a is <<a, i>>
    args,             \* the keyword arguments as the caller supplied them
    train_size,       \* the local train_size (line 185 may assign it)
    validation_size,  \* the local validation_size
    test_size,        \* the local test_size (line 183 may assign it)
    pc,               \* position in the function body
    err,              \* the exception raised, "" when none
    X_train, X_val, X_test, y_train, y_val, y_test,   \* the locals of lines 194-204
    result,           \* the returned tuple, <<>> when nothing was returned
    draws,            \* permutations drawn from a random source by this call
    rngMemo,          \* permutations the generator seeded with this seed has produced
    prev,             \* <<result>> of the previous call with the same arguments, or None
    globalRng,        \* permutations drawn so far from numpy's process-wide generator
    szCall,           \* a call followed on the shapes of its arrays, in float arithmetic
    szPrev,           \* <<the finished call>> made before szCall on the same dataset, or None
    search,           \* the cell of the K search (lines 254-278)
    prep,             \* a call of preprocess (lines 393-413)
    kfold,            \* the cell of the kernel search by k-fold (lines 322-364)
    grid              \* the cell of the pipeline search by grid search (lines 440-491)

\* the variables of the specifications other than Spec
restVars == <<szCall, szPrev, search, prep, kfold, grid>>

vars == <<arrays, args, train_size, validation_size, test_size, pc, err,
          X_train, X_val, X_test, y_train, y_val, y_test, result, draws,
          rngMemo, prev, globalRng, szCall, szPrev, search,
          prep, kfold, grid>>

locals == <<X_train, X_val, X_test, y_train, y_val, y_test>>

\* ------------------------------------------------------- pure operators

\* Python truthiness of "None or a float": None and 0.0 are false.
Truthy(o) == o # None /\ o[1] # 0

ResolveBranchOr(tr, va, te) ==
    IF Truthy(tr) \/ Truthy(va) THEN "train_val"
    ELSE IF Truthy(te) \/ Truthy(va) THEN "test_val"
    ELSE "raise"

\* The if / elif / else of lines 182-189.
ResolveBranch(tr, va, te) ==
    IF Truthy(tr) /\ Truthy(va) THEN "train_val"
    ELSE IF Truthy(te) /\ Truthy(va) THEN "test_val"
    ELSE "raise"

\* 1.0 - a - b (lines 183 and 185), in units of 1/Den.
Complement(a, b) == Den - a - b

AnyNegativeNoTrain(tr, va, te) == te < 0 \/ va < 0

\* The condition of line 191.
AnyNegative(tr, va, te) == te < 0 \/ va < 0 \/ tr < 0

\* A float test_size is the fraction num/den.
Frac(num, den) == [num |-> num, den |-> den]

\* sklearn _validate_shuffle_split: a float test_size must lie in (0, 1).
InUnitInterval(f) == 0 < f.num /\ f.num < f.den

\* n_test = ceil(test_size * n_samples)
NTest(f, n) == (f.num * n + f.den - 1) \div f.den

\* n_train = n_samples - n_test (train_size is None in both calls)
NTrain(n, n_test) == n - n_test

\* check_consistent_length: all arrays have the same number of rows.
ConsistentLength(arrs) == \A a, b \in 1 .. Len(arrs) : Len(arrs[a]) = Len(arrs[b])

SplitErrorNoEmpty(arrs, f) ==
    IF Len(arrs) = 0 THEN "NoArrays"
    ELSE IF ~ConsistentLength(arrs) THEN "InconsistentLength"
    ELSE IF ~InUnitInterval(f) THEN "TestSizeRange"
    ELSE ""

\* The checks train_test_split makes before it shuffles; "" when they pass.
SplitError(arrs, f) ==
    IF Len(arrs) = 0 THEN "NoArrays"
    ELSE IF ~ConsistentLength(arrs) THEN "InconsistentLength"
    ELSE IF ~InUnitInterval(f) THEN "TestSizeRange"
    ELSE IF NTrain(Len(arrs[1]), NTest(f, Len(arrs[1]))) = 0 THEN "EmptyTrain"
    ELSE ""

AllPerms(n) == {p \in [1 .. n -> 1 .. n] : \A i, j \in 1 .. n : p[i] = p[j] => i = j}

PermutationsUnseeded(random_state, n, memo) == AllPerms(n)

\* rng = check_random_state(random_state); rng.permutation(n).  With
\* random_state None the generator is numpy's global one and any permutation
\* may come.  With an integer a fresh RandomState(seed) is built by every
\* train_test_split call, so the permutation is a function of (seed, n):
\* arbitrary the first time, the remembered one afterwards.
Permutations(random_state, n, memo) ==
    IF random_state # None
       /\ \E m \in memo : m[1] = random_state /\ Len(m[2]) = n
    THEN {m[2] : m \in {x \in memo : x[1] = random_state /\ Len(x[2]) = n}}
    ELSE AllPerms(n)

\* check_random_state(None) returns numpy's global RandomState singleton,
\* which every unseeded draw advances; an integer seed builds a local one.
GlobalDraw(random_state, g) == IF random_state = None THEN g + 1 ELSE g

Remember(random_state, p, memo) ==
    IF random_state = None THEN memo ELSE memo \cup {<<random_state, p>>}

\* ShuffleSplit._iter_indices: ind_test = permutation[:n_test]
IndTest(p, n_test, n_train) == SubSeq(p, 1, n_test)

IndTrainShort(p, n_test, n_train) == SubSeq(p, n_test + 2, n_test + n_train)

\* ShuffleSplit._iter_indices: ind_train = permutation[n_test:n_test + n_train]
IndTrain(p, n_test, n_train) == SubSeq(p, n_test + 1, n_test + n_train)

\* _safe_indexing(a, indices)
SafeIndexing(a, ind) == [k \in 1 .. Len(ind) |-> a[ind[k]]]

Reverse(s) == [k \in 1 .. Len(s) |-> s[Len(s) + 1 - k]]

TrainTestSplitOutPerArray(arrs, ind_train, ind_test) ==
    [k \in 1 .. 2 * Len(arrs) |->
        LET a == (k + 1) \div 2
            it == IF a = 1 THEN ind_train ELSE Reverse(ind_train)
            ie == IF a = 1 THEN ind_test ELSE Reverse(ind_test)
        IN  IF k % 2 = 1 THEN SafeIndexing(arrs[a], it) ELSE SafeIndexing(arrs[a], ie)]

\* The list train_test_split returns: a_train, a_test for every array a,
\* all indexed by the same ind_train and ind_test.
TrainTestSplitOut(arrs, ind_train, ind_test) ==
    [k \in 1 .. 2 * Len(arrs) |->
        IF k % 2 = 1 THEN SafeIndexing(arrs[(k + 1) \div 2], ind_train)
                     ELSE SafeIndexing(arrs[k \div 2], ind_test)]

\* train_test_split(arrs, test_size = f) with the permutation p drawn.
TrainTestSplit(arrs, f, p) ==
    LET n == Len(arrs[1])
        n_test == NTest(f, n)
        n_train == NTrain(n, n_test)
    IN  TrainTestSplitOut(arrs, IndTrain(p, n_test, n_train), IndTest(p, n_test, n_train))

Stage2ArraysOriginal(arrs, Xtr, ytr) == arrs

\* The arrays of the second call (lines 198-199): the stage-1 remainder.
Stage2Arrays(arrs, Xtr, ytr) == <<Xtr, ytr>>

\* The test_size of the second call (lines 200-202):
\* validation_size * (X_train.shape[0] + X_test.shape[0]) / X_train.shape[0]
Stage2TestSize(va, n_rem, n_test) == Frac(va * (n_rem + n_test), Den * n_rem)

MkArray(a, len) == [i \in 1 .. len |-> <<a, i>>]

\* ------------------------------------------------------------- the state

Init ==
    /\ arrays = <<>>
    /\ args = [train_size |-> None, validation_size |-> None, test_size |-> None,
               random_state |-> None]
    /\ train_size = None /\ validation_size = None /\ test_size = None
    /\ pc = "idle"
    /\ err = ""
    /\ X_train = <<>> /\ X_val = <<>> /\ X_test = <<>>
    /\ y_train = <<>> /\ y_val = <<>> /\ y_test = <<>>
    /\ result = <<>>
    /\ draws = 0
    /\ rngMemo = {}
    /\ prev = None
    /\ globalRng = 0
    /\ szCall = None /\ szPrev = None /\ search = None /\ prep = None /\ kfold = None /\ grid = None

Enter(a) ==
    /\ args' = a
    /\ train_size' = a.train_size
    /\ validation_size' = a.validation_size
    /\ test_size' = a.test_size
    /\ pc' = "resolve"
    /\ err' = ""
    /\ X_train' = <<>> /\ X_val' = <<>> /\ X_test' = <<>>
    /\ y_train' = <<>> /\ y_val' = <<>> /\ y_test' = <<>>
    /\ result' = <<>>
    /\ draws' = 0

\* A call of train_validation_test_split (lines 162-164) on a dataset of N
\* arrays of n rows; when ragged the last array is one row short.
Call ==
    /\ pc = "idle"
    /\ \E N \in 0 .. MaxArrays, n \in 0 .. MaxN, ragged \in BOOLEAN :
          /\ ragged => (N >= 2 /\ n >= 1)
          /\ N = 0 => n = 0
          /\ arrays' = [a \in 1 .. N |-> MkArray(a, IF ragged /\ a = N THEN n - 1 ELSE n)]
    /\ \E tr \in Proportions, va \in Proportions, te \in Proportions, rs \in Seeds :
          Enter([train_size |-> tr, validation_size |-> va, test_size |-> te,
                 random_state |-> rs])
    /\ rngMemo' = {}
    /\ prev' = None
    /\ UNCHANGED globalRng
    /\ UNCHANGED restVars

\* A seeded call made a second time: same arrays, same keyword arguments,
\* same integer random_state.
Repeat ==
    /\ pc = "done"
    /\ prev = None
    /\ args.random_state # None
    /\ Enter(args)
    /\ prev' = Some(result)
    /\ UNCHANGED <<arrays, rngMemo, globalRng>>
    /\ UNCHANGED restVars

\* Lines 182-189.  A None operand of line 183 or 185 is Python's TypeError.
Resolve ==
    /\ pc = "resolve"
    /\ LET b == ResolveBranch(train_size, validation_size, test_size) IN
       CASE b = "train_val" ->
              IF train_size = None \/ validation_size = None
              THEN pc' = "error" /\ err' = "TypeError" /\ UNCHANGED <<train_size, test_size>>
              ELSE /\ test_size' = Some(Complement(train_size[1], validation_size[1]))
                   /\ pc' = "check"
                   /\ UNCHANGED <<train_size, err>>
         [] b = "test_val" ->
              IF test_size = None \/ validation_size = None
              THEN pc' = "error" /\ err' = "TypeError" /\ UNCHANGED <<train_size, test_size>>
              ELSE /\ train_size' = Some(Complement(test_size[1], validation_size[1]))
                   /\ pc' = "check"
                   /\ UNCHANGED <<test_size, err>>
         [] OTHER ->
              /\ pc' = "error"
              /\ err' = "ProvidePair"
              /\ UNCHANGED <<train_size, test_size>>
    /\ UNCHANGED <<arrays, args, validation_size, locals, result, draws, rngMemo, prev,
                   globalRng>>
    /\ UNCHANGED restVars

\* Lines 191-192.
Check ==
    /\ pc = "check"
    /\ IF AnyNegative(train_size[1], validation_size[1], test_size[1])
       THEN pc' = "error" /\ err' = "TotalSum"
       ELSE pc' = "stage1" /\ err' = err
    /\ UNCHANGED <<arrays, args, train_size, validation_size, test_size, locals,
                   result, draws, rngMemo, prev, globalRng>>
    /\ UNCHANGED restVars

\* Lines 194-196: the first train_test_split, on *arrays with test_size, and
\* the unpacking of its list into four names.
Stage1 ==
    /\ pc = "stage1"
    /\ LET f == Frac(test_size[1], Den)
           e == SplitError(arrays, f)
       IN  IF e # ""
           THEN /\ pc' = "error" /\ err' = e
                /\ UNCHANGED <<locals, draws, rngMemo, globalRng>>
           ELSE \E p \in Permutations(args.random_state, Len(arrays[1]), rngMemo) :
                  LET out == TrainTestSplit(arrays, f, p) IN
                  /\ draws' = draws + 1
                  /\ rngMemo' = Remember(args.random_state, p, rngMemo)
                  /\ globalRng' = GlobalDraw(args.random_state, globalRng)
                  /\ IF Len(out) # 4
                     THEN /\ pc' = "error" /\ err' = "Unpack"
                          /\ UNCHANGED locals
                     ELSE /\ X_train' = out[1] /\ X_test' = out[2]
                          /\ y_train' = out[3] /\ y_test' = out[4]
                          /\ pc' = "stage2" /\ err' = err
                          /\ UNCHANGED <<X_val, y_val>>
    /\ UNCHANGED <<arrays, args, train_size, validation_size, test_size, result, prev>>
    /\ UNCHANGED restVars

\* Lines 197-204: the second train_test_split, on the remainder.
Stage2 ==
    /\ pc = "stage2"
    /\ LET f == Stage2TestSize(validation_size[1], Len(X_train), Len(X_test))
           arrs == Stage2Arrays(arrays, X_train, y_train)
           e == SplitError(arrs, f)
       IN  IF e # ""
           THEN /\ pc' = "error" /\ err' = e
                /\ UNCHANGED <<locals, draws, rngMemo, globalRng>>
           ELSE \E p \in Permutations(args.random_state, Len(arrs[1]), rngMemo) :
                  LET out == TrainTestSplit(arrs, f, p) IN
                  /\ draws' = draws + 1
                  /\ rngMemo' = Remember(args.random_state, p, rngMemo)
                  /\ globalRng' = GlobalDraw(args.random_state, globalRng)
                  /\ X_train' = out[1] /\ X_val' = out[2]
                  /\ y_train' = out[3] /\ y_val' = out[4]
                  /\ pc' = "return" /\ err' = err
                  /\ UNCHANGED <<X_test, y_test>>
    /\ UNCHANGED <<arrays, args, train_size, validation_size, test_size, result, prev>>
    /\ UNCHANGED restVars

ReturnSwapped ==
    /\ pc = "return"
    /\ result' = <<X_train, X_test, X_val, y_train, y_test, y_val>>
    /\ pc' = "done"
    /\ UNCHANGED <<arrays, args, train_size, validation_size, test_size, err, locals,
                   draws, rngMemo, prev, globalRng>>
    /\ UNCHANGED restVars

\* Line 206.
Return ==
    /\ pc = "return"
    /\ result' = <<X_train, X_val, X_test, y_train, y_val, y_test>>
    /\ pc' = "done"
    /\ UNCHANGED <<arrays, args, train_size, validation_size, test_size, err, locals,
                   draws, rngMemo, prev, globalRng>>
    /\ UNCHANGED restVars

Next == Call \/ Repeat \/ Resolve \/ Check \/ Stage1 \/ Stage2 \/ Return

Spec == Init /\ [][Next]_vars

\* --------------------------------------------------------------- claims

NRows == IF Len(arrays) = 0 THEN 0 ELSE Len(arrays[1])

\* The original row indices held by a partition.
Rows(part) == {part[k][2] : k \in 1 .. Len(part)}

Entered == pc \notin {"idle", "resolve"}

\* validation_size and at least one of train_size, test_size were supplied.
PairSupplied(a) ==
    a.validation_size # None /\ (a.train_size # None \/ a.test_size # None)

AllThreeSupplied(a) ==
    a.train_size # None /\ a.validation_size # None /\ a.test_size # None

\* C1: a call that returns has |train| + |validation| + |test| = n, for the
\* feature outputs and for the label outputs.
C1_SizesSumToN ==
    pc = "done" =>
        /\ Len(result[1]) + Len(result[2]) + Len(result[3]) = NRows
        /\ Len(result[4]) + Len(result[5]) + Len(result[6]) = NRows

C1_Witness ==
    pc = "done" /\ NRows >= 4 /\ Len(result[1]) >= 2 /\ Len(result[2]) >= 1
    /\ Len(result[3]) >= 1

\* C2: a call that returns places every row index 1..n in exactly one of
\* train, validation and test: the three index sets are pairwise disjoint and
\* their union is 1..n.
C2_DisjointExhaustive ==
    pc = "done" =>
        /\ Rows(result[1]) \cap Rows(result[2]) = {}
        /\ Rows(result[1]) \cap Rows(result[3]) = {}
        /\ Rows(result[2]) \cap Rows(result[3]) = {}
        /\ Rows(result[1]) \cup Rows(result[2]) \cup Rows(result[3]) = 1 .. NRows

\* Both stages drew from the generator seeded with the same random_state.
C2_Witness ==
    pc = "done" /\ args.random_state # None /\ draws = 2 /\ NRows >= 4

\* C3: a seeded call repeated with the same arrays, proportions and
\* random_state returns the same partitions, the same rows in the same order.
C3_Deterministic ==
    (pc = "done" /\ prev # None /\ args.random_state # None) => result = prev[1]

C3_Witness ==
    pc = "done" /\ prev # None /\ args.random_state # None /\ NRows >= 4
    /\ Len(result[1]) >= 2

\* Position k of X and of y hold the same original row, X's from the first
\* array and y's from the second.
Aligned(X, y) ==
    /\ Len(X) = Len(y)
    /\ \A k \in 1 .. Len(X) : X[k][2] = y[k][2] /\ X[k][1] = 1 /\ y[k][1] = 2

\* C4: after stage 1 X_train/y_train and X_test/y_test are index-aligned,
\* after stage 2 so are X_val/y_val, and so are the returned pairs.
C4_Aligned ==
    /\ pc \in {"stage2", "return", "done"} =>
          Aligned(X_train, y_train) /\ Aligned(X_test, y_test)
    /\ pc \in {"return", "done"} => Aligned(X_val, y_val)
    /\ pc = "done" =>
          /\ Aligned(result[1], result[4])
          /\ Aligned(result[2], result[5])
          /\ Aligned(result[3], result[6])

\* A returned train partition of two rows that are not in their original order.
C4_Witness ==
    pc = "done" /\ Len(result[1]) >= 2 /\ result[1][1][2] > result[1][2][2]

\* C5: a call without a complete pair (validation_size missing, or neither
\* train_size nor test_size) raises the "Provide either ..." ValueError of
\* line 187, returns nothing and draws nothing.
C5_IncompletePairRejected ==
    (Entered /\ ~PairSupplied(args)) =>
        pc = "error" /\ err = "ProvidePair" /\ result = <<>> /\ draws = 0

\* train_size and test_size supplied without validation_size.
C5_Witness ==
    pc = "error" /\ args.train_size # None /\ args.test_size # None
    /\ args.validation_size = None /\ args.train_size[1] > 0 /\ args.test_size[1] > 0

\* C6 (as claimed): a call that supplies all three proportions fails: it
\* never returns a split.
C6_AllThreeRejected ==
    (pc \in {"done", "error"} /\ AllThreeSupplied(args)) => pc = "error"

\* The three proportions of the claim's reading: the supplied pair and the
\* complement derived from it (train_size with validation_size when both are
\* supplied, test_size with validation_size otherwise).
DerivedTriple(a) ==
    IF a.train_size # None
    THEN <<a.train_size[1], a.validation_size[1],
           Den - a.train_size[1] - a.validation_size[1]>>
    ELSE <<Den - a.test_size[1] - a.validation_size[1], a.validation_size[1],
           a.test_size[1]>>

\* C7: when a complete pair is supplied and one of the three proportions is
\* negative after the third is derived, the call raises one of the function's
\* own ValueErrors (line 187 or line 192) before any split is made: it never
\* gets past the check of line 191.
C7_NegativeRejected ==
    (Entered /\ PairSupplied(args)
        /\ \E i \in 1 .. 3 : DerivedTriple(args)[i] < 0) =>
        /\ pc \in {"check", "error"}
        /\ pc = "error" => err \in {"ProvidePair", "TotalSum"}
        /\ draws = 0 /\ result = <<>>

\* Two supplied proportions that sum to more than 1 (0.75 and 0.5).
C7_Witness ==
    pc = "error" /\ err = "TotalSum" /\ args.test_size = None
    /\ args.train_size # None /\ args.validation_size # None
    /\ args.train_size[1] > 0 /\ args.validation_size[1] > 0
    /\ args.train_size[1] + args.validation_size[1] > Den

\* C8 (as claimed): on two equal-length arrays of n >= 1 rows, a call that
\* supplies exactly one pair, each value >= 0 and their sum <= 1, ends
\* without an error.
C8_ValidPairAccepted ==
    (pc \in {"done", "error"}
        /\ Len(arrays) = 2 /\ ConsistentLength(arrays) /\ NRows >= 1
        /\ PairSupplied(args) /\ ~AllThreeSupplied(args)
        /\ \A i \in 1 .. 3 : DerivedTriple(args)[i] >= 0) =>
        pc = "done"

\* C9 (as claimed): on two arrays, a call that fails has drawn from no
\* random source and returns nothing.
C9_FailsBeforeRandom ==
    (pc = "error" /\ Len(arrays) = 2) => (draws = 0 /\ result = <<>>)

\* C10 (as claimed): no call fails on the number of arrays, and a call that
\* returns gives three partitions for each of the N arrays.
C10_AnyNumberOfArrays ==
    /\ pc = "error" => err # "Unpack"
    /\ pc = "done" => Len(result) = 3 * Len(arrays)

\* C11 (as claimed): a call neither reads nor writes process-wide state, so
\* no other call can change what it returns: the state of numpy's global
\* generator is what it was before the call, also for random_state = None.
C11_NoProcessWideState == globalRng = 0

\* C12 (as claimed): on two arrays of one row, a call that supplies exactly
\* one pair of strictly positive proportions whose complement is strictly
\* positive too raises no error and puts the row in exactly one partition.
C12_SingleRow ==
    (pc \in {"done", "error"}
        /\ Len(arrays) = 2 /\ ConsistentLength(arrays) /\ NRows = 1
        /\ PairSupplied(args) /\ ~AllThreeSupplied(args)
        /\ \A i \in 1 .. 3 : DerivedTriple(args)[i] > 0) =>
        /\ pc = "done"
        /\ Len(result[1]) + Len(result[2]) + Len(result[3]) = 1

\* C13: arrays of different lengths, and arrays of no rows, are rejected
\* before any row is drawn or split: the call never gets past the first
\* train_test_split, nothing is drawn and nothing is returned, and once the
\* proportion checks of lines 182-192 have passed the error is the one of the
\* shape (inconsistent lengths; for no rows an empty train set, or the
\* test_size range check that precedes it).
C13_ShapeRejected ==
    (Entered /\ Len(arrays) >= 1 /\ (~ConsistentLength(arrays) \/ NRows = 0)) =>
        /\ pc \in {"check", "stage1", "error"}
        /\ draws = 0 /\ result = <<>>
        /\ X_train = <<>> /\ X_val = <<>> /\ X_test = <<>>
        /\ y_train = <<>> /\ y_val = <<>> /\ y_test = <<>>
        /\ (pc = "error" /\ err \notin {"ProvidePair", "TotalSum"}) =>
              IF ~ConsistentLength(arrays) THEN err = "InconsistentLength"
              ELSE err \in {"EmptyTrain", "TestSizeRange"}

\* Both shapes: two arrays of different lengths rejected by the first
\* train_test_split.
C13_Witness ==
    pc = "error" /\ err = "InconsistentLength" /\ Len(arrays) = 2
    /\ Len(arrays[1]) = Len(arrays[2]) + 1 /\ Len(arrays[1]) >= 3

C13_WitnessEmpty ==
    pc = "error" /\ err = "EmptyTrain" /\ Len(arrays) = 2 /\ NRows = 0

\* every row of part is a row of array a
FromArray(part, a) == \A k \in 1 .. Len(part) : part[k][1] = a

\* C21: a call that returns gives X_train, X_val, X_test, y_train, y_val,
\* y_test in this order: three parts of the first array, then three parts
\* of the second; the test parts are the ones the first train_test_split
\* cut from the n rows, the validation parts the ones the second cut from
\* the remainder.
C21_OutputOrder ==
    pc = "done" =>
        /\ result = <<X_train, X_val, X_test, y_train, y_val, y_test>>
        /\ \A k \in 1 .. 3 : FromArray(result[k], 1) /\ FromArray(result[k + 3], 2)
        /\ LET n_test == NTest(Frac(test_size[1], Den), NRows)
               n_rem == NTrain(NRows, n_test)
               n_val == NTest(Stage2TestSize(validation_size[1], n_rem, n_test), n_rem)
           IN  /\ Len(result[3]) = n_test /\ Len(result[6]) = n_test
               /\ Len(result[2]) = n_val /\ Len(result[5]) = n_val
               /\ Len(result[1]) = n_rem - n_val /\ Len(result[4]) = n_rem - n_val

C21_Witness ==
    /\ pc = "done" /\ NRows = 4
    /\ Len(result[1]) = 1 /\ Len(result[2]) = 1 /\ Len(result[3]) = 2
    /\ Len(result[6]) = 2

\* ---------------------------------------------- Python float arithmetic
\* A Python float is an IEEE-754 binary64.  Its value is kept exactly, as
\* (-1)^neg * m * 2^e with m a natural number of exactly MantBits bits, or as
\* FZero.  Naturals too large for a machine integer are sequences of limbs of
\* LimbBits bits, least significant limb first, with no leading zero limb.
\* The values that arise here are far from the overflow and subnormal ranges.

\* significand bits of a binary64
MantBits == 53

\* bits of a limb; a limb times a small integer stays a machine integer
LimbBits == 15

\* extra quotient bits computed by a division before it is rounded
DivShift == 90

Base == 2 ^ LimbBits

\* number of bits of a natural k < 2 * Base * Base
BitLen(k) == CHOOSE b \in 0 .. 2 * LimbBits + 1 : k < 2 ^ b /\ (b = 0 \/ 2 ^ (b - 1) <= k)

RECURSIVE BOf(_)
BOf(k) == IF k = 0 THEN <<>> ELSE <<k % Base>> \o BOf(k \div Base)

RECURSIVE IntOf(_)
IntOf(x) == IF x = <<>> THEN 0 ELSE Head(x) + Base * IntOf(Tail(x))

Limb(x, i) == IF i >= 1 /\ i <= Len(x) THEN x[i] ELSE 0

RECURSIVE BNorm(_)
BNorm(x) == IF x = <<>> \/ x[Len(x)] # 0 THEN x ELSE BNorm(SubSeq(x, 1, Len(x) - 1))

\* number of bits of x
BLen(x) == IF x = <<>> THEN 0 ELSE LimbBits * (Len(x) - 1) + BitLen(x[Len(x)])

BOdd(x) == x # <<>> /\ x[1] % 2 = 1

RECURSIVE BAddFrom(_, _, _, _)
BAddFrom(x, y, i, c) ==
    IF i > Len(x) /\ i > Len(y) THEN BOf(c)
    ELSE LET t == Limb(x, i) + Limb(y, i) + c
         IN  <<t % Base>> \o BAddFrom(x, y, i + 1, t \div Base)

BAdd(x, y) == BAddFrom(x, y, 1, 0)

RECURSIVE BSubFrom(_, _, _, _)
BSubFrom(x, y, i, b) ==
    IF i > Len(x) THEN <<>>
    ELSE LET t == Base + Limb(x, i) - Limb(y, i) - b
         IN  <<t % Base>> \o BSubFrom(x, y, i + 1, IF t < Base THEN 1 ELSE 0)

\* x - y for x >= y
BSub(x, y) == BNorm(BSubFrom(x, y, 1, 0))

\* x < y
BLess(x, y) ==
    IF Len(x) # Len(y) THEN Len(x) < Len(y)
    ELSE LET d == {i \in 1 .. Len(x) : x[i] # y[i]}
         IN  d # {} /\ LET top == CHOOSE i \in d : \A j \in d : j <= i
                       IN  x[top] < y[top]

RECURSIVE BMulFrom(_, _, _, _)
BMulFrom(x, k, i, c) ==
    IF i > Len(x) THEN BOf(c)
    ELSE LET t == x[i] * k + c
         IN  <<t % Base>> \o BMulFrom(x, k, i + 1, t \div Base)

\* x * k for 0 <= k <= Base
BMul(x, k) == BNorm(BMulFrom(x, k, 1, 0))

\* long division of the limbs i .. 1 of x by k, r the remainder so far
RECURSIVE BDivFrom(_, _, _, _)
BDivFrom(x, k, i, r) ==
    IF i = 0 THEN [q |-> <<>>, r |-> r]
    ELSE LET t == Base * r + x[i]
             rest == BDivFrom(x, k, i - 1, t % k)
         IN  [q |-> Append(rest.q, t \div k), r |-> rest.r]

\* quotient and remainder of x by k, 0 < k <= Base
BDiv(x, k) == LET d == BDivFrom(x, k, Len(x), 0) IN [q |-> BNorm(d.q), r |-> d.r]

\* x * 2^s
BShl(x, s) ==
    IF x = <<>> THEN <<>>
    ELSE [i \in 1 .. s \div LimbBits |-> 0] \o BMul(x, 2 ^ (s % LimbBits))

\* floor(x / 2^s), and whether bits were lost
BShr(x, s) ==
    LET a == s \div LimbBits
        d == BDiv(SubSeq(x, a + 1, Len(x)), 2 ^ (s % LimbBits))
    IN  [q |-> d.q, lost |-> d.r # 0 \/ \E i \in 1 .. a : Limb(x, i) # 0]

FZero == [neg |-> FALSE, m |-> <<>>, e |-> 0]

\* the float of value (-1)^neg * m * 2^e, for m of at most MantBits bits
FMake(neg, m, e) ==
    IF m = <<>> THEN FZero
    ELSE [neg |-> neg, m |-> BShl(m, MantBits - BLen(m)), e |-> e - (MantBits - BLen(m))]

\* Round to nearest, ties to even: the float nearest to (-1)^neg * (m + s) * 2^e,
\* where 0 < s < 1 when sticky and s = 0 otherwise.
FRound(neg, m, e, sticky) ==
    IF BLen(m) <= MantBits THEN FMake(neg, m, e)
    ELSE LET d == BLen(m) - MantBits
             g == BShr(m, d - 1)
             kept == BDiv(g.q, 2).q
             up == BOdd(g.q) /\ (sticky \/ g.lost \/ BOdd(kept))
             r == IF up THEN BAdd(kept, <<1>>) ELSE kept
         IN  IF BLen(r) > MantBits THEN FMake(neg, BDiv(r, 2).q, e + d + 1)
             ELSE FMake(neg, r, e + d)

\* float(k) for an int k
FInt(k) == FMake(k < 0, BOf(IF k < 0 THEN -k ELSE k), 0)

FNeg(x) == IF x.m = <<>> THEN x ELSE [x EXCEPT !.neg = ~x.neg]

\* x + y
FAdd(x, y) ==
    IF x.m = <<>> THEN y
    ELSE IF y.m = <<>> THEN x
    ELSE LET e0 == IF x.e < y.e THEN x.e ELSE y.e
             mx == BShl(x.m, x.e - e0)
             my == BShl(y.m, y.e - e0)
         IN  IF x.neg = y.neg THEN FRound(x.neg, BAdd(mx, my), e0, FALSE)
             ELSE IF mx = my THEN FZero
             ELSE IF BLess(my, mx) THEN FRound(x.neg, BSub(mx, my), e0, FALSE)
             ELSE FRound(y.neg, BSub(my, mx), e0, FALSE)

\* x - y
FSub(x, y) == FAdd(x, FNeg(y))

\* x * k for an int k, 0 <= k <= Base
FMulInt(x, k) == FRound(x.neg, BMul(x.m, k), x.e, FALSE)

\* x / k for an int k, 0 < k <= Base
FDivInt(x, k) ==
    LET d == BDiv(BShl(x.m, DivShift), k)
    IN  FRound(x.neg, d.q, x.e - DivShift, d.r # 0)

\* The float a decimal literal of value num/den denotes: the nearest one.
FLit(num, den) == FDivInt(FInt(num), den)

FLtZero(x) == x.neg /\ x.m # <<>>

FLeZero(x) == x.neg \/ x.m = <<>>

FGeOne(x) == ~x.neg /\ x.m # <<>> /\ MantBits + x.e >= 1

\* math.ceil(x), for |x| < Base * Base
FCeil(x) ==
    IF x.m = <<>> THEN 0
    ELSE IF x.e >= 0 THEN (IF x.neg THEN -1 ELSE 1) * IntOf(BShl(x.m, x.e))
    ELSE LET s == BShr(x.m, -x.e)
         IN  IF x.neg THEN -IntOf(s.q)
             ELSE IntOf(s.q) + (IF s.lost THEN 1 ELSE 0)

\* ------------------------------------------------ the split on shapes
\* The same function followed on the shapes of its arrays only, with the
\* proportions as Python floats: which rows go where is left out, how many
\* go where is computed as the interpreter computes it.  A dataset is its
\* number of rows; every array of a call has that many.

MaxRows == 28      \* largest number of rows of a dataset, the wine dataset apart
DecDen == 10       \* proportions are written as multiples of 1/DecDen

\* rows of the wine dataset (line 129)
WineRows == 178

\* 0.33 and 0.1675 (line 210) are multiples of 1/WineDen
WineDen == 10000

\* the decimal literal num/den
Lit(num, den) == [num |-> num, den |-> den]

GridPairs == {ab \in (1 .. DecDen - 2) \X (1 .. DecDen - 2) : ab[1] + ab[2] < DecDen}

\* Proportions (train, validation, test), all positive and adding up to 1.
GridTriples ==
    {<<Lit(ab[1], DecDen), Lit(ab[2], DecDen), Lit(DecDen - ab[1] - ab[2], DecDen)>> :
        ab \in GridPairs}

\* validation_size = 0.1675 with train_size = 0.5, and with test_size = 0.33
\* (line 210).
WineHalf == <<Lit(5000, WineDen), Lit(1675, WineDen), Lit(3325, WineDen)>>
WineThird == <<Lit(5025, WineDen), Lit(1675, WineDen), Lit(3300, WineDen)>>

Triples == GridTriples \cup {WineHalf, WineThird}
RowCounts == 1 .. MaxRows \cup {WineRows}

FOf(l) == FLit(l.num, l.den)

\* Python truthiness of "None or a float".
FTruthy(o) == o # None /\ o[1].m # <<>>

\* Lines 162-164: the call on a dataset of n rows with proportions t, passing
\* train_size and validation_size, or test_size and validation_size.
NewCall(n, t, form) ==
    [pc |-> "resolve", n |-> n, triple |-> t, form |-> form,
     train_size |-> IF form = "train" THEN Some(FOf(t[1])) ELSE None,
     validation_size |-> Some(FOf(t[2])),
     test_size |-> IF form = "test" THEN Some(FOf(t[3])) ELSE None,
     err |-> "",
     X_train |-> 0, X_val |-> 0, X_test |-> 0,
     y_train |-> 0, y_val |-> 0, y_test |-> 0,
     result |-> <<>>]

\* Lines 183 and 185: 1.0 - a - b.
FComplement(a, b) == FSub(FSub(FInt(1), a), b)

ShuffleSplitSizesFloor(n_samples, ts) ==
    IF FLeZero(ts) \/ FGeOne(ts) THEN [err |-> "TestSizeRange", n_train |-> 0, n_test |-> 0]
    ELSE LET up == FCeil(FMulInt(ts, n_samples))
             n_test == IF up > 0 /\ FInt(up) # FMulInt(ts, n_samples) THEN up - 1 ELSE up
         IN  IF n_samples - n_test = 0
             THEN [err |-> "EmptyTrain", n_train |-> 0, n_test |-> n_test]
             ELSE [err |-> "", n_train |-> n_samples - n_test, n_test |-> n_test]

\* The sizes train_test_split gives the two parts of n_samples rows for a
\* float test_size: test_size must lie strictly between 0 and 1,
\* n_test = ceil(test_size * n_samples), the train part is the rest and must
\* not be empty.
ShuffleSplitSizes(n_samples, ts) ==
    IF FLeZero(ts) \/ FGeOne(ts) THEN [err |-> "TestSizeRange", n_train |-> 0, n_test |-> 0]
    ELSE LET n_test == FCeil(FMulInt(ts, n_samples))
         IN  IF n_samples - n_test = 0
             THEN [err |-> "EmptyTrain", n_train |-> 0, n_test |-> n_test]
             ELSE [err |-> "", n_train |-> n_samples - n_test, n_test |-> n_test]

SzStage2TestSizeNaive(va, n_rem, n_test) == va

\* Lines 200-202: validation_size * (X_train.shape[0] + X_test.shape[0])
\* / X_train.shape[0], evaluated left to right.
SzStage2TestSize(va, n_rem, n_test) == FDivInt(FMulInt(va, n_rem + n_test), n_rem)

\* The split variables at rest.
SplitIdle ==
    /\ arrays = <<>>
    /\ args = [train_size |-> None, validation_size |-> None, test_size |-> None,
               random_state |-> None]
    /\ train_size = None /\ validation_size = None /\ test_size = None
    /\ pc = "idle" /\ err = ""
    /\ X_train = <<>> /\ X_val = <<>> /\ X_test = <<>>
    /\ y_train = <<>> /\ y_val = <<>> /\ y_test = <<>>
    /\ result = <<>> /\ draws = 0 /\ rngMemo = {} /\ prev = None /\ globalRng = 0

splitVars == <<arrays, args, train_size, validation_size, test_size, pc, err,
               X_train, X_val, X_test, y_train, y_val, y_test, result, draws,
               rngMemo, prev, globalRng>>

InitSizes ==
    /\ SplitIdle
    /\ \E n \in RowCounts, t \in Triples : szCall = NewCall(n, t, "train")
    /\ szPrev = None
    /\ search = None /\ prep = None /\ kfold = None /\ grid = None

\* Lines 182-189.
SzResolve ==
    /\ szCall.pc = "resolve"
    /\ szCall' =
          IF FTruthy(szCall.train_size) /\ FTruthy(szCall.validation_size)
          THEN [szCall EXCEPT !.pc = "check",
                  !.test_size = Some(FComplement(szCall.train_size[1],
                                                 szCall.validation_size[1]))]
          ELSE IF FTruthy(szCall.test_size) /\ FTruthy(szCall.validation_size)
          THEN [szCall EXCEPT !.pc = "check",
                  !.train_size = Some(FComplement(szCall.test_size[1],
                                                  szCall.validation_size[1]))]
          ELSE [szCall EXCEPT !.pc = "error", !.err = "ProvidePair"]
    /\ UNCHANGED <<splitVars, szPrev, search, prep, kfold, grid>>

\* Lines 191-192.
SzCheck ==
    /\ szCall.pc = "check"
    /\ szCall' =
          IF \/ FLtZero(szCall.test_size[1])
             \/ FLtZero(szCall.validation_size[1])
             \/ FLtZero(szCall.train_size[1])
          THEN [szCall EXCEPT !.pc = "error", !.err = "TotalSum"]
          ELSE [szCall EXCEPT !.pc = "stage1"]
    /\ UNCHANGED <<splitVars, szPrev, search, prep, kfold, grid>>

\* Lines 194-196.
SzStage1 ==
    /\ szCall.pc = "stage1"
    /\ LET s == ShuffleSplitSizes(szCall.n, szCall.test_size[1])
       IN  szCall' =
              IF s.err # "" THEN [szCall EXCEPT !.pc = "error", !.err = s.err]
              ELSE [szCall EXCEPT !.pc = "stage2",
                      !.X_train = s.n_train, !.X_test = s.n_test,
                      !.y_train = s.n_train, !.y_test = s.n_test]
    /\ UNCHANGED <<splitVars, szPrev, search, prep, kfold, grid>>

\* Lines 197-204.
SzStage2 ==
    /\ szCall.pc = "stage2"
    /\ LET ts == SzStage2TestSize(szCall.validation_size[1], szCall.X_train, szCall.X_test)
           s == ShuffleSplitSizes(szCall.X_train, ts)
       IN  szCall' =
              IF s.err # "" THEN [szCall EXCEPT !.pc = "error", !.err = s.err]
              ELSE [szCall EXCEPT !.pc = "return",
                      !.X_train = s.n_train, !.X_val = s.n_test,
                      !.y_train = s.n_train, !.y_val = s.n_test]
    /\ UNCHANGED <<splitVars, szPrev, search, prep, kfold, grid>>

\* Line 206.
SzReturn ==
    /\ szCall.pc = "return"
    /\ szCall' = [szCall EXCEPT !.pc = "done",
                    !.result = <<szCall.X_train, szCall.X_val, szCall.X_test,
                                 szCall.y_train, szCall.y_val, szCall.y_test>>]
    /\ UNCHANGED <<splitVars, szPrev, search, prep, kfold, grid>>

\* The same dataset split again with the same proportions, passed as
\* test_size and validation_size.
SzOtherForm ==
    /\ szCall.pc \in {"done", "error"}
    /\ szPrev = None
    /\ szPrev' = Some(szCall)
    /\ szCall' = NewCall(szCall.n, szCall.triple, "test")
    /\ UNCHANGED <<splitVars, search, prep, kfold, grid>>

NextSizes == SzResolve \/ SzCheck \/ SzStage1 \/ SzStage2 \/ SzReturn \/ SzOtherForm

SpecSizes == InitSizes /\ [][NextSizes]_vars

\* ------------------------------------------------- claims on the sizes

\* The call of the scenario: the wine dataset with train_size = 0.5 and
\* validation_size = 0.1675, returned.
WineHalfReturned ==
    /\ szCall.pc = "done" /\ szCall.n = WineRows
    /\ szCall.form = "train" /\ szCall.triple = WineHalf

C15_RecordedRun ==
    (/\ szCall.pc \in {"done", "error"} /\ szCall.n = WineRows
     /\ szCall.form = "test" /\ szCall.triple = WineThird) =>
        /\ szCall.pc = "done"
        /\ szCall.result[1] = 89 /\ szCall.result[2] = 30 /\ szCall.result[3] = 59
        /\ \A i \in 1 .. 3 : szCall.result[i + 3] = szCall.result[i]

C15_Witness ==
    /\ szCall.pc = "done" /\ szCall.n = WineRows
    /\ szCall.form = "test" /\ szCall.triple = WineThird
    /\ szCall.result[1] = 89

\* The readings of "validation_size * n, rounded": the exact product rounded
\* down or up, and the float product rounded up as train_test_split rounds.
Roundings(l, n) ==
    {(l.num * n) \div l.den, (l.num * n + l.den - 1) \div l.den, FCeil(FMulInt(FOf(l), n))}

\* C19: whatever test_size is, the validation part has validation_size * n
\* rows, rounded.
C19_ValidationOfOriginal ==
    szCall.pc = "done" => szCall.result[2] \in Roundings(szCall.triple[2], szCall.n)

\* C20: the call passing (train_size = a, validation_size = b) and the call
\* passing (test_size = c, validation_size = b), a + b + c = 1, on the same
\* dataset end alike: both raise, or both return parts of the same sizes.
C20_FormsEquivalent ==
    (szPrev # None /\ szCall.pc \in {"done", "error"}) =>
        /\ szCall.pc = szPrev[1].pc
        /\ szCall.result = szPrev[1].result

\* --------------------------------------------------------- the K search
\* The cell of lines 254-278: a KNeighborsClassifier is fitted on the train
\* set for every K of range(1, 22, 5) and scored on the validation set; the
\* K of the best validation accuracy is then scored once on the test set.
\* The state is the notebook's namespace; reads holds, in order, the uses the
\* cell makes of the six datasets, and split the train and validation sets
\* as the split returned them.  A score is the fraction of the rows of
\* the scored set that the classifier labels correctly; how many it labels
\* correctly is an input.

MaxPart == 2       \* largest number of rows of the train, validation and test sets

\* range(1, 22, 5) (line 259)
KStart == 1
KStop == 22
KStep == 5

\* best_acc_ind = -1 (line 257)
NoIndex == -1

\* rows first .. first + len - 1 of array a
Part(a, first, len) == [k \in 1 .. len |-> <<a, first + k - 1>>]

\* x < y for fractions
FracLess(x, y) == x.num * y.den < y.num * x.den

\* the datasets as named in the namespace
Dataset(ns, name) ==
    CASE name = "X_train" -> ns.X_train
      [] name = "y_train" -> ns.y_train
      [] name = "X_val" -> ns.X_val
      [] name = "y_val" -> ns.y_val
      [] name = "X_test" -> ns.X_test
      [] name = "y_test" -> ns.y_test

\* The namespace when the cell starts: the outputs of the split (lines
\* 209-211) on datasets of nt + nv + ns rows, and lines 255-257.
SearchStart(nt, nv, ns) ==
    [pc |-> "for", i |-> NoIndex, clf |-> <<>>,
     best_acc |-> Frac(0, 1), best_acc_ind |-> NoIndex, acc |-> None,
     X_train |-> Part(1, 1, nt), y_train |-> Part(2, 1, nt),
     X_val |-> Part(1, nt + 1, nv), y_val |-> Part(2, nt + 1, nv),
     X_test |-> Part(1, nt + nv + 1, ns), y_test |-> Part(2, nt + nv + 1, ns),
     reads |-> <<>>, err |-> "",
     split |-> <<Part(1, 1, nt), Part(2, 1, nt), Part(1, nt + 1, nv), Part(2, nt + 1, nv)>>]

\* the K after i in range(KStart, KStop, KStep), KStop when there is none
NextK(i) == IF i = NoIndex THEN KStart ELSE IF i + KStep < KStop THEN i + KStep ELSE KStop

FitResplit(ns, X, y) ==
    [ns EXCEPT !.clf = [k \in DOMAIN ns.clf \cup {ns.i} |->
                           IF k = ns.i
                           THEN [n_neighbors |-> ns.i, X |-> Dataset(ns, X), y |-> Dataset(ns, y)]
                           ELSE ns.clf[k]],
               !.reads = Append(ns.reads, [op |-> "fit", k |-> ns.i, X |-> X, y |-> y,
                                          looping |-> ns.pc # "test"]),
               !.X_train = ns.X_train \o ns.X_val, !.y_train = ns.y_train \o ns.y_val,
               !.X_val = ns.X_test, !.y_val = ns.y_test]

\* clf[i] = KNeighborsClassifier(n_neighbors=i); clf[i].fit(X, y): the
\* classifier keeps the rows it is given and changes nothing else.
Fit(ns, X, y) ==
    [ns EXCEPT !.clf = [k \in DOMAIN ns.clf \cup {ns.i} |->
                           IF k = ns.i
                           THEN [n_neighbors |-> ns.i, X |-> Dataset(ns, X), y |-> Dataset(ns, y)]
                           ELSE ns.clf[k]],
               !.reads = Append(ns.reads, [op |-> "fit", k |-> ns.i, X |-> X, y |-> y,
                                          looping |-> ns.pc # "test"])]

\* acc = clf[k].score(X, y) with c rows labelled correctly.
Score(ns, k, X, y, c) ==
    [ns EXCEPT !.acc = Some(Frac(c, Len(Dataset(ns, X)))),
               !.reads = Append(ns.reads, [op |-> "score", k |-> k, X |-> X, y |-> y,
                                          acc |-> Frac(c, Len(Dataset(ns, X))),
                                          looping |-> ns.pc # "test"])]

LoopScoreOnTest(ns, c) == Score(ns, ns.i, "X_test", "y_test", c)

\* Line 266.
LoopScore(ns, c) == Score(ns, ns.i, "X_val", "y_val", c)

\* Line 277.
FinalScore(ns, c) == Score(ns, ns.best_acc_ind, "X_test", "y_test", c)

InitSearch ==
    /\ SplitIdle
    /\ szCall = None /\ szPrev = None /\ prep = None /\ kfold = None /\ grid = None
    /\ \E nt \in 1 .. MaxPart, nv \in 1 .. MaxPart, ns \in 1 .. MaxPart :
          search = SearchStart(nt, nv, ns)

\* Lines 259-260: the next K of the range, or the end of the loop.
ForK ==
    /\ search.pc = "for"
    /\ search' = IF NextK(search.i) < KStop
                 THEN [search EXCEPT !.i = NextK(search.i), !.pc = "fit"]
                 ELSE [search EXCEPT !.pc = "test"]
    /\ UNCHANGED <<splitVars, szCall, szPrev, prep, kfold, grid>>

\* Lines 260-263.
FitOnTrain ==
    /\ search.pc = "fit"
    /\ search' = [Fit(search, "X_train", "y_train") EXCEPT !.pc = "score"]
    /\ UNCHANGED <<splitVars, szCall, szPrev, prep, kfold, grid>>

\* Line 266.
ScoreOnValidation ==
    /\ search.pc = "score"
    /\ \E c \in 0 .. Len(search.X_val) :
          search' = [LoopScore(search, c) EXCEPT !.pc = "compare"]
    /\ UNCHANGED <<splitVars, szCall, szPrev, prep, kfold, grid>>

\* Lines 268-272.
KeepBest ==
    /\ search.pc = "compare"
    /\ search' = IF FracLess(search.best_acc, search.acc[1])
                 THEN [search EXCEPT !.best_acc = search.acc[1],
                                     !.best_acc_ind = search.i, !.pc = "for"]
                 ELSE [search EXCEPT !.pc = "for"]
    /\ UNCHANGED <<splitVars, szCall, szPrev, prep, kfold, grid>>

\* Lines 274-278.  clf[best_acc_ind] is a KeyError when no K was kept.
TestBest ==
    /\ search.pc = "test"
    /\ IF search.best_acc_ind \notin DOMAIN search.clf
       THEN search' = [search EXCEPT !.pc = "error", !.err = "KeyError"]
       ELSE \E c \in 0 .. Len(search.X_test) :
               search' = [FinalScore(search, c) EXCEPT !.pc = "done"]
    /\ UNCHANGED <<splitVars, szCall, szPrev, prep, kfold, grid>>

NextSearch == ForK \/ FitOnTrain \/ ScoreOnValidation \/ KeepBest \/ TestBest

SpecSearch == InitSearch /\ [][NextSearch]_vars

\* ------------------------------------------------- claims on the search

\* C16: at every point of the search X_train, y_train, X_val and y_val hold
\* the rows the split gave them, and every classifier was fitted on those
\* train rows.
C16_SetsFixed ==
    /\ <<search.X_train, search.y_train, search.X_val, search.y_val>> = search.split
    /\ \A k \in DOMAIN search.clf :
          search.clf[k].X = search.X_train /\ search.clf[k].y = search.y_train

C16_Witness ==
    /\ search.pc = "done" /\ Len(search.reads) = 11
    /\ Len(search.X_train) = 2 /\ Len(search.X_val) = 2

\* the reads of the test set
TestReads(ns) ==
    {r \in DOMAIN ns.reads : ns.reads[r].X \in {"X_test", "y_test"}
                             \/ ns.reads[r].y \in {"X_test", "y_test"}}

\* the validation scores of the loop, by position in reads
ValScores(ns) ==
    {r \in DOMAIN ns.reads : ns.reads[r].op = "score" /\ ns.reads[r].X = "X_val"}

\* K was selected on the validation set: its validation score is the
\* highest, and no earlier K reached it.
Selected(ns, k) ==
    \E r \in ValScores(ns) :
        /\ ns.reads[r].k = k
        /\ \A q \in ValScores(ns) :
              /\ ~FracLess(ns.reads[r].acc, ns.reads[q].acc)
              /\ q < r => FracLess(ns.reads[q].acc, ns.reads[r].acc)

\* C17: the test set is read at most once, by a score of the classifier
\* selected on the validation set, after the loop has ended with every K of
\* the range scored; the cell does not finish without that read.
C17_TestReadOnceAtEnd ==
    /\ Cardinality(TestReads(search)) <= 1
    /\ search.pc = "done" => TestReads(search) # {}
    /\ \A r \in TestReads(search) :
          /\ search.reads[r].op = "score"
          /\ search.reads[r].X = "X_test" /\ search.reads[r].y = "y_test"
          /\ ~search.reads[r].looping
          /\ r = Len(search.reads)
          /\ NextK(search.i) = KStop
          /\ search.reads[r].k = search.best_acc_ind
          /\ Selected(search, search.reads[r].k)

C17_Witness ==
    /\ search.pc = "done" /\ TestReads(search) # {}
    /\ search.best_acc_ind = KStart + KStep

\* ------------------------------------------------------------ preprocess
\* preprocess(X_train, X_test, modality), lines 393-413.  An array is a
\* sequence of rows of one feature, a natural number.  A fitted scaler is
\* the statistics of the rows it was fitted on, and seen are those rows; a
\* transformed value is kept exact, as the fraction and the variance it is
\* computed from.

MaxLen == 2        \* largest number of rows of X_train and of X_test
MaxValue == 2      \* largest value of a feature

Modalities == {"l2", "l1", "standard", "min-max", "svc", "std-scaler"}

Features == UNION {[1 .. len -> 0 .. MaxValue] : len \in 1 .. MaxLen}

RECURSIVE SumOf(_)
SumOf(X) == IF X = <<>> THEN 0 ELSE Head(X) + SumOf(Tail(X))

Squares(X) == [k \in 1 .. Len(X) |-> X[k] * X[k]]

MinOf(X) == CHOOSE v \in {X[k] : k \in 1 .. Len(X)} : \A k \in 1 .. Len(X) : v <= X[k]

MaxOf(X) == CHOOSE v \in {X[k] : k \in 1 .. Len(X)} : \A k \in 1 .. Len(X) : v >= X[k]

\* preprocessing.normalize(X, norm): every row divided by its norm, a row
\* of norm 0 left as it is.  For rows of one feature the l1 and l2 norms
\* are the absolute value.
Normalize(X, norm) ==
    [k \in 1 .. Len(X) |-> IF X[k] = 0 THEN Frac(0, 1) ELSE Frac(X[k], X[k])]

\* scaler.fit(X) for StandardScaler (mean_ and var_ of X) and MinMaxScaler
\* (data_min_ and data_max_ of X).
ScalerFit(kind, X) ==
    IF kind = "standard"
    THEN [kind |-> kind, seen |-> X,
          mean_ |-> Frac(SumOf(X), Len(X)),
          var_ |-> Frac(Len(X) * SumOf(Squares(X)) - SumOf(X) * SumOf(X), Len(X) * Len(X))]
    ELSE [kind |-> kind, seen |-> X, data_min_ |-> MinOf(X), data_max_ |-> MaxOf(X)]

\* scaler.transform(X): (x - mean_) / sqrt(var_) for StandardScaler and
\* (x - data_min_) / (data_max_ - data_min_) for MinMaxScaler, divided by 1
\* instead when the variance or the range is 0.
ScalerTransform(scaler, X) ==
    IF scaler.kind = "standard"
    THEN [k \in 1 .. Len(X) |->
            [centred |-> Frac(X[k] * scaler.mean_.den - scaler.mean_.num, scaler.mean_.den),
             var |-> IF scaler.var_.num = 0 THEN Frac(1, 1) ELSE scaler.var_]]
    ELSE [k \in 1 .. Len(X) |->
            Frac(X[k] - scaler.data_min_,
                 IF scaler.data_max_ = scaler.data_min_ THEN 1
                 ELSE scaler.data_max_ - scaler.data_min_)]

FitArgLeak(Xtr, Xte) == Xtr \o Xte

\* The argument of scaler.fit (lines 403 and 409).
FitArg(Xtr, Xte) == Xtr

\* Lines 401-405 and 407-411 for the scaler of the given kind.
Scale(p, kind) ==
    LET scaler == ScalerFit(kind, FitArg(p.X_train, p.X_test))
    IN  [p EXCEPT !.scaler = Some(scaler),
                  !.X_train_p = ScalerTransform(scaler, p.X_train),
                  !.X_test_p = ScalerTransform(scaler, p.X_test)]

\* Lines 393-395.
InitPrep ==
    /\ SplitIdle
    /\ szCall = None /\ szPrev = None /\ search = None /\ kfold = None /\ grid = None
    /\ \E Xtr \in Features, Xte \in Features, modality \in Modalities :
          prep = [pc |-> "normalize", X_train |-> Xtr, X_test |-> Xte,
                  modality |-> modality, X_train_p |-> Xtr, X_test_p |-> Xte,
                  scaler |-> None, result |-> <<>>]

\* Lines 397-399.
PrepNormalize ==
    /\ prep.pc = "normalize"
    /\ prep' = IF prep.modality = "l2" \/ prep.modality = "l1"
               THEN [prep EXCEPT !.X_train_p = Normalize(prep.X_train, prep.modality),
                                 !.X_test_p = Normalize(prep.X_test, prep.modality),
                                 !.pc = "standard"]
               ELSE [prep EXCEPT !.pc = "standard"]
    /\ UNCHANGED <<splitVars, szCall, szPrev, search, kfold, grid>>

\* Lines 401-405.
PrepStandard ==
    /\ prep.pc = "standard"
    /\ prep' = IF prep.modality = "standard"
               THEN [Scale(prep, "standard") EXCEPT !.pc = "min-max"]
               ELSE [prep EXCEPT !.pc = "min-max"]
    /\ UNCHANGED <<splitVars, szCall, szPrev, search, kfold, grid>>

\* Lines 407-411.
PrepMinMax ==
    /\ prep.pc = "min-max"
    /\ prep' = IF prep.modality = "min-max"
               THEN [Scale(prep, "min-max") EXCEPT !.pc = "return"]
               ELSE [prep EXCEPT !.pc = "return"]
    /\ UNCHANGED <<splitVars, szCall, szPrev, search, kfold, grid>>

\* Line 413.
PrepReturn ==
    /\ prep.pc = "return"
    /\ prep' = [prep EXCEPT !.result = <<prep.X_train_p, prep.X_test_p>>, !.pc = "done"]
    /\ UNCHANGED <<splitVars, szCall, szPrev, search, kfold, grid>>

NextPrep == PrepNormalize \/ PrepStandard \/ PrepMinMax \/ PrepReturn

SpecPrep == InitPrep /\ [][NextPrep]_vars

\* ---------------------------------------------- claims on preprocess

\* C18: for the modalities 'standard' and 'min-max' the scaler is fitted on
\* the rows of X_train and on nothing else, its parameters are those of
\* X_train, and the call returns X_train and X_test transformed by that
\* scaler.
C18_NoLeakage ==
    /\ prep.scaler # None =>
          /\ prep.scaler[1].kind = prep.modality
          /\ prep.scaler[1].seen = prep.X_train
          /\ prep.scaler[1] = ScalerFit(prep.modality, prep.X_train)
    /\ (prep.pc = "done" /\ prep.modality \in {"standard", "min-max"}) =>
          /\ prep.scaler # None
          /\ prep.result = <<ScalerTransform(prep.scaler[1], prep.X_train),
                             ScalerTransform(prep.scaler[1], prep.X_test)>>

C18_Witness ==
    /\ prep.pc = "done" /\ prep.modality = "standard"
    /\ prep.X_train = <<0, 2>> /\ prep.X_test = <<1, 2>>
    /\ prep.scaler # None
    /\ prep.scaler[1] # ScalerFit("standard", prep.X_train \o prep.X_test)

C18_WitnessMinMax ==
    /\ prep.pc = "done" /\ prep.modality = "min-max"
    /\ prep.X_train = <<0, 1>> /\ prep.X_test = <<2>>
    /\ prep.result[2] = <<Frac(2, 1)>>

\* ------------------------------------------------- the selection loops
\* The three cells that select a hyperparameter by a loop keeping the best
\* score: the K search above, the kernel search by k-fold cross validation
\* (lines 336-364) and the pipeline search by grid search (lines 453-491).
\* A cross-validation score is an input, one of Scores; evals holds, in
\* order, the candidates evaluated and their scores.

\* the scores a cross validation may give
Scores == {Frac(c, MaxPart) : c \in 0 .. MaxPart}

\* ["linear", "poly", "rbf"] (lines 344 and 449)
Kernels == <<"linear", "poly", "rbf">>

\* [0.01, 0.1, 1, 10, 100] (line 450)
Cs == {Lit(1, 100), Lit(1, 10), Lit(1, 1), Lit(10, 1), Lit(100, 1)}

\* pipe.steps[0][0] of the pipelines of prep (lines 459-463)
Pipelines == <<"svc", "std-scaler", "min-max">>

\* a cell that is not run
Off == [pc |-> "off"]

\* Lines 337-338.
KFoldStart ==
    [pc |-> "for", idx |-> 0, kernel |-> None, best_acc |-> Frac(0, 1), bestK |-> "linear",
     acc |-> None, evals |-> <<>>, clf |-> None, test_acc |-> None]

\* Lines 344-345: the next kernel of the list, or the end of the loop.
KfFor ==
    /\ kfold.pc = "for"
    /\ kfold' = IF kfold.idx < Len(Kernels)
                THEN [kfold EXCEPT !.idx = kfold.idx + 1,
                                   !.kernel = Some(Kernels[kfold.idx + 1]), !.pc = "cv"]
                ELSE [kfold EXCEPT !.pc = "test"]
    /\ UNCHANGED <<splitVars, szCall, szPrev, search, prep, grid>>

\* Lines 347-355: acc = np.mean(cross_val_score(...)).
KfCrossValidate ==
    /\ kfold.pc = "cv"
    /\ \E acc \in Scores :
          kfold' = [kfold EXCEPT !.acc = Some(acc), !.pc = "compare",
                      !.evals = Append(kfold.evals, [cand |-> kfold.kernel[1], score |-> acc])]
    /\ UNCHANGED <<splitVars, szCall, szPrev, search, prep, grid>>

KfKeepBestOnTie ==
    /\ kfold.pc = "compare"
    /\ kfold' = IF ~FracLess(kfold.acc[1], kfold.best_acc)
                THEN [kfold EXCEPT !.best_acc = kfold.acc[1],
                                   !.bestK = kfold.kernel[1], !.pc = "for"]
                ELSE [kfold EXCEPT !.pc = "for"]
    /\ UNCHANGED <<splitVars, szCall, szPrev, search, prep, grid>>

\* Lines 356-358.
KfKeepBest ==
    /\ kfold.pc = "compare"
    /\ kfold' = IF FracLess(kfold.best_acc, kfold.acc[1])
                THEN [kfold EXCEPT !.best_acc = kfold.acc[1],
                                   !.bestK = kfold.kernel[1], !.pc = "for"]
                ELSE [kfold EXCEPT !.pc = "for"]
    /\ UNCHANGED <<splitVars, szCall, szPrev, search, prep, grid>>

\* Lines 361-364.
KfTest ==
    /\ kfold.pc = "test"
    /\ \E acc \in Scores :
          kfold' = [kfold EXCEPT !.clf = Some([kernel |-> kfold.bestK]),
                                 !.test_acc = Some(acc), !.pc = "done"]
    /\ UNCHANGED <<splitVars, szCall, szPrev, search, prep, grid>>

\* The locals of preprocess(X_train, X_test, modality) at its return (lines
\* 393-413); scaler is None when no scaler was made.
PreprocessLocals(Xtr, Xte, modality) ==
    LET entered == [X_train |-> Xtr, X_test |-> Xte, modality |-> modality,
                    X_train_p |-> Xtr, X_test_p |-> Xte, scaler |-> None]
        normalized == IF modality = "l2" \/ modality = "l1"
                      THEN [entered EXCEPT !.X_train_p = Normalize(Xtr, modality),
                                           !.X_test_p = Normalize(Xte, modality)]
                      ELSE entered
        standard == IF modality = "standard" THEN Scale(normalized, "standard")
                    ELSE normalized
    IN  IF modality = "min-max" THEN Scale(standard, "min-max") ELSE standard

\* Lines 443-445 and 454-456: the train and test sets, and nothing kept yet.
GridStart(Xtr, Xte) ==
    [pc |-> "for", idx |-> 0, pipe |-> None, search |-> None,
     best_score |-> Frac(0, 1), best_params |-> <<>>, bestP |-> "no",
     evals |-> <<>>, X_train |-> Xtr, X_test |-> Xte,
     clf |-> None, X_train_p |-> None, X_test_p |-> None, scaler |-> None,
     test_acc |-> None, err |-> ""]

\* Line 465: the next pipeline of prep, or the end of the loop.
GrFor ==
    /\ grid.pc = "for"
    /\ grid' = IF grid.idx < Len(Pipelines)
               THEN [grid EXCEPT !.idx = grid.idx + 1,
                                 !.pipe = Some(Pipelines[grid.idx + 1]), !.pc = "fit"]
               ELSE [grid EXCEPT !.pc = "test"]
    /\ UNCHANGED <<splitVars, szCall, szPrev, search, prep, kfold>>

\* Lines 466-476: the grid search gives its best score and the parameters
\* of the grid that reached it.
GrFit ==
    /\ grid.pc = "fit"
    /\ \E score \in Scores, k \in 1 .. Len(Kernels), C \in Cs :
          grid' = [grid EXCEPT
                     !.search = Some([best_score_ |-> score,
                                      best_params_ |-> [svc__kernel |-> Kernels[k],
                                                        svc__C |-> C]]),
                     !.evals = Append(grid.evals, [cand |-> grid.pipe[1], score |-> score]),
                     !.pc = "compare"]
    /\ UNCHANGED <<splitVars, szCall, szPrev, search, prep, kfold>>

\* Lines 477-480.
GrKeepBest ==
    /\ grid.pc = "compare"
    /\ grid' = IF FracLess(grid.best_score, grid.search[1].best_score_)
               THEN [grid EXCEPT !.best_score = grid.search[1].best_score_,
                                 !.best_params = grid.search[1].best_params_,
                                 !.bestP = grid.pipe[1], !.pc = "for"]
               ELSE [grid EXCEPT !.pc = "for"]
    /\ UNCHANGED <<splitVars, szCall, szPrev, search, prep, kfold>>

\* Lines 483-491.  best_params["svc__kernel"] is a KeyError on the empty dict;
\* scaler is the scaler preprocess used, None when it used none.
GrTest ==
    /\ grid.pc = "test"
    /\ IF "svc__kernel" \notin DOMAIN grid.best_params
          \/ "svc__C" \notin DOMAIN grid.best_params
       THEN grid' = [grid EXCEPT !.pc = "error", !.err = "KeyError"]
       ELSE \E acc \in Scores :
               LET p == PreprocessLocals(grid.X_train, grid.X_test, grid.bestP)
               IN  grid' = [grid EXCEPT
                              !.clf = Some([kernel |-> grid.best_params.svc__kernel,
                                            C |-> grid.best_params.svc__C]),
                              !.X_train_p = Some(p.X_train_p), !.X_test_p = Some(p.X_test_p),
                              !.scaler = p.scaler,
                              !.test_acc = Some(acc), !.pc = "done"]
    /\ UNCHANGED <<splitVars, szCall, szPrev, search, prep, kfold>>

\* One of the three cells is run.
InitLoops ==
    /\ SplitIdle
    /\ szCall = None /\ szPrev = None /\ prep = None
    /\ \/ /\ \E nt \in 1 .. MaxPart, nv \in 1 .. MaxPart, ns \in 1 .. MaxPart :
                search = SearchStart(nt, nv, ns)
          /\ kfold = Off /\ grid = Off
       \/ /\ search = Off /\ kfold = KFoldStart /\ grid = Off
       \/ /\ search = Off /\ kfold = Off
          /\ \E Xtr \in [1 .. MaxLen -> {0, MaxValue}], v \in {0, MaxValue} :
                grid = GridStart(Xtr, <<v>>)

NextLoops ==
    \/ ForK \/ FitOnTrain \/ ScoreOnValidation \/ KeepBest \/ TestBest
    \/ KfFor \/ KfCrossValidate \/ KfKeepBest \/ KfTest
    \/ GrFor \/ GrFit \/ GrKeepBest \/ GrTest

SpecLoops == InitLoops /\ [][NextLoops]_vars

\* ------------------------------------------------- claims on the loops

IsValScore(r) == r.op = "score" /\ r.X = "X_val"

\* the candidates the K search has evaluated and their scores, in order
KnnEvals(ns) ==
    LET sel == SelectSeq(ns.reads, IsValScore)
    IN  [k \in 1 .. Len(sel) |-> [cand |-> sel[k].k, score |-> sel[k].acc]]

FracEq(x, y) == x.num * y.den = y.num * x.den

\* best is the highest score of evals and cand the first candidate with it
IsMaxReduction(evals, best, cand) ==
    \E r \in DOMAIN evals :
        /\ evals[r].cand = cand
        /\ FracEq(evals[r].score, best)
        /\ \A q \in DOMAIN evals :
              /\ ~FracLess(evals[r].score, evals[q].score)
              /\ q < r => FracLess(evals[q].score, evals[r].score)

Ended(cell) == cell.pc \in {"test", "done", "error"}

\* C22: when a selection loop has ended, the best score kept is the highest
\* score of the candidates evaluated and the best candidate kept is the
\* first candidate that reached it.
C22_MaxReduction ==
    /\ Ended(search) => IsMaxReduction(KnnEvals(search), search.best_acc, search.best_acc_ind)
    /\ Ended(kfold) => IsMaxReduction(kfold.evals, kfold.best_acc, kfold.bestK)
    /\ Ended(grid) => IsMaxReduction(grid.evals, grid.best_score, grid.bestP)

\* C23: after the selection loop best_acc_ind is a key of clf, best_params
\* has the keys 'svc__kernel' and 'svc__C', and the final step does not fail
\* on a missing key.
C23_BestWasEvaluated ==
    /\ Ended(search) =>
          /\ search.best_acc_ind \in DOMAIN search.clf
          /\ search.err # "KeyError"
    /\ Ended(grid) =>
          /\ {"svc__kernel", "svc__C"} \subseteq DOMAIN grid.best_params
          /\ grid.err # "KeyError"

\* The scaler the pipeline named name fits on the train set before its SVC
\* (lines 459-463): none, a StandardScaler or a MinMaxScaler.
PipelineScaler(name, Xtr) ==
    IF name = "std-scaler" THEN Some(ScalerFit("standard", Xtr))
    ELSE IF name = "min-max" THEN Some(ScalerFit("min-max", Xtr))
    ELSE None

\* C24: the final test of the grid-search cell runs on the features scaled
\* as the winning pipeline scales them: preprocess uses no scaler for 'svc',
\* and for 'std-scaler' and 'min-max' the pipeline's scaler fitted on the
\* train set, by which it transforms the train and the test set.
C24_SamePreprocessing ==
    grid.pc = "done" =>
        /\ grid.scaler = PipelineScaler(grid.bestP, grid.X_train)
        /\ <<grid.X_train_p[1], grid.X_test_p[1]>> =
              IF grid.scaler = None THEN <<grid.X_train, grid.X_test>>
              ELSE <<ScalerTransform(grid.scaler[1], grid.X_train),
                     ScalerTransform(grid.scaler[1], grid.X_test)>>

\* preprocess followed step by step returns what PreprocessLocals gives.
PrepAsFunction ==
    prep.pc = "done" =>
        LET p == PreprocessLocals(prep.X_train, prep.X_test, prep.modality)
        IN  prep.scaler = p.scaler /\ prep.result = <<p.X_train_p, p.X_test_p>>

\* best is at least every score of evals
BestCovers(evals, best) == \A r \in DOMAIN evals : ~FracLess(best, evals[r].score)

\* One step of a loop that keeps best and cand, old before and new after:
\* the best score does not decrease, after an iteration it is at least
\* every score evaluated, and the candidate changes only to the candidate
\* just evaluated, whose score is above the best score before.
BestStep(old_pc, old_best, old_cand, new_pc, new_best, new_cand, new_evals) ==
    /\ ~FracLess(new_best, old_best)
    /\ new_pc = "for" => BestCovers(new_evals, new_best)
    /\ new_cand # old_cand =>
          /\ old_pc = "compare"
          /\ new_evals # <<>>
          /\ new_cand = new_evals[Len(new_evals)].cand
          /\ FracLess(old_best, new_evals[Len(new_evals)].score)
          /\ FracEq(new_best, new_evals[Len(new_evals)].score)

\* C25: in the three selection loops the best score never decreases, after
\* each iteration it is at least every score evaluated so far, and the best
\* candidate changes only in an iteration whose score is above the best
\* score before it.
C25_BestMonotone ==
    [][/\ search.pc # "off" =>
            BestStep(search.pc, search.best_acc, search.best_acc_ind,
                     search'.pc, search'.best_acc, search'.best_acc_ind, KnnEvals(search'))
       /\ kfold.pc # "off" =>
            BestStep(kfold.pc, kfold.best_acc, kfold.bestK,
                     kfold'.pc, kfold'.best_acc, kfold'.bestK, kfold'.evals)
       /\ grid.pc # "off" =>
            /\ BestStep(grid.pc, grid.best_score, grid.bestP,
                        grid'.pc, grid'.best_score, grid'.bestP, grid'.evals)
            /\ grid'.best_params # grid.best_params =>
                  /\ grid.pc = "compare"
                  /\ grid'.bestP = grid.pipe[1]
                  /\ grid'.best_params = grid.search[1].best_params_
                  /\ FracLess(grid.best_score, grid.search[1].best_score_)]_vars

C25_Witness ==
    /\ kfold.pc = "done" /\ kfold.bestK = "poly" /\ FracEq(kfold.best_acc, kfold.evals[2].score)
    /\ FracLess(kfold.evals[1].score, kfold.evals[2].score)
    /\ FracEq(kfold.evals[2].score, kfold.evals[3].score)

=============================================================================
